---- MODULE Spec2Model ----
(***************************************************************************)
(* SEO Content Analyzer (src/main.py): the text analyzer, the content      *)
(* extractor and the three Streamlit handlers.                             *)
(*                                                                         *)
(* A Python str is a sequence of one-character strings, the characters     *)
(* being those of Latin-1 (U+0000 to U+00FF).  A parsed document is a      *)
(* sequence of nodes in document order, each naming its parent.            *)
(***************************************************************************)
EXTENDS Integers, Sequences, FiniteSets, TLC

VARIABLES
    text_content,  \* analyzer: the text handed to the analyzer
    tool_keywords, \* analyzer: the comma separated keyword input
    call,          \* analyzer: what ran last on these inputs, and what it returned
    page,          \* extractor: the document parsed from driver.page_source
    main_content,  \* extractor: the content root chosen (0: None, -1: not run)
    extracted,     \* extractor: the string returned for page (None: not run)
    pc,            \* app: the handler that ran last, or the bulk loop in progress
    sessions,      \* app: webdriver.Chrome instances started and not quit
    errors,        \* app: st.error messages of the current run
    warnings,      \* app: st.warning messages of the current run
    shown,         \* app: what the current run rendered after st.success
    urls,          \* bulk: the URL list read from the upload (Unbound: no list
                   \*       has been read in the current run)
    keywords_list, \* bulk: the trimmed keywords
    idx,           \* bulk: loop iterations completed
    results,       \* bulk: the result rows
    progress,      \* bulk: the last value given to progress_bar.progress, as <<i + 1, len(urls)>>
    fetches,       \* app: per get_clean_content call of the current run that
                   \*      returned, what the browser did and what the call returned
    driver         \* app: the get_clean_content call inside time.sleep(5), its
                   \*      webdriver open (NoDriver: no call is waiting)

analyzerVars == <<text_content, tool_keywords, call>>
extractorVars == <<page, main_content, extracted>>
appVars == <<pc, sessions, errors, warnings, shown, urls, keywords_list, idx,
             results, progress, fetches, driver>>
vars == <<text_content, tool_keywords, call, page, main_content, extracted,
          pc, sessions, errors, warnings, shown, urls, keywords_list, idx,
          results, progress, fetches, driver>>

\* Python's None where a str is expected
None == <<"None">>

\* the name of a string node (bs4 gives a NavigableString no tag name)
StringNode == "[string]"

\* the name urls is not bound: no bulk run, the read raised, or the name of the
\* upload ends in none of .csv, .xlsx, .txt (main.py:151-156 has no else)
Unbound == <<"[unbound]">>

\* no get_clean_content call is between webdriver.Chrome(...) and driver.quit()
NoDriver == [tab |-> "none", url |-> "", keywords |-> <<>>]

(***************************************************************************)
(* Bounds                                                                  *)
(***************************************************************************)
MaxTextLen == 3
MaxKwStr == 3

(***************************************************************************)
(* Python str primitives                                                   *)
(***************************************************************************)
Range(s) == {s[i] : i \in 1..Len(s)}

\* the characters str.lower() changes, and what it makes of each
UpperCase ==
    <<"A", "B", "C", "D", "E", "F", "G", "H", "I", "J", "K", "L", "M",
      "N", "O", "P", "Q", "R", "S", "T", "U", "V", "W", "X", "Y", "Z",
      "À", "Á", "Â", "Ã", "Ä", "Å", "Æ", "Ç", "È", "É",
      "Ê", "Ë", "Ì", "Í", "Î", "Ï", "Ð", "Ñ", "Ò", "Ó",
      "Ô", "Õ", "Ö", "Ø", "Ù", "Ú", "Û", "Ü", "Ý", "Þ">>
LowerCase ==
    <<"a", "b", "c", "d", "e", "f", "g", "h", "i", "j", "k", "l", "m",
      "n", "o", "p", "q", "r", "s", "t", "u", "v", "w", "x", "y", "z",
      "à", "á", "â", "ã", "ä", "å", "æ", "ç", "è", "é",
      "ê", "ë", "ì", "í", "î", "ï", "ð", "ñ", "ò", "ó",
      "ô", "õ", "ö", "ø", "ù", "ú", "û", "ü", "ý", "þ">>

\* what str.lower() makes of each character it changes
Lowered ==
    [c \in Range(UpperCase) |->
        LowerCase[CHOOSE i \in 1..Len(UpperCase) : UpperCase[i] = c]]

\* str.lower() on one character
LowerChar(c) == IF c \in DOMAIN Lowered THEN Lowered[c] ELSE c

\* str.lower()
Lower(s) == [i \in 1..Len(s) |-> LowerChar(s[i])]

\* the characters str.strip() removes and bs4 splits a class attribute on:
\* U+0009 to U+000D, U+001C to U+001F, the space, U+0085 and U+00A0
Whitespace ==
    {"\t", "\n", "", "\f", "\r", "", "", "", "", " ", "", " "}

\* str.strip(): leading and trailing whitespace removed
Strip(s) ==
    LET keep == {i \in 1..Len(s) : s[i] \notin Whitespace}
    IN  IF keep = {} THEN <<>>
        ELSE LET lo == CHOOSE i \in keep : \A j \in keep : i <= j
                 hi == CHOOSE i \in keep : \A j \in keep : j <= i
             IN  SubSeq(s, lo, hi)

\* whether sub starts at (1-based) index i of s
MatchAt(s, sub, i) ==
    /\ i + Len(sub) - 1 <= Len(s)
    /\ \A j \in 1..Len(sub) : s[i + j - 1] = sub[j]

\* the `in` operator on str
Contains(s, sub) == \E i \in 1..(Len(s) + 1) : MatchAt(s, sub, i)

\* str.count(sub): scan from the left, skip past each occurrence found
RECURSIVE CountFrom(_, _, _)
CountFrom(s, sub, i) ==
    IF i + Len(sub) - 1 > Len(s) THEN 0
    ELSE IF MatchAt(s, sub, i) THEN 1 + CountFrom(s, sub, i + Len(sub))
    ELSE CountFrom(s, sub, i + 1)

\* mutant: overlapping occurrences are all counted
StrCountOverlapping(s, sub) ==
    IF sub = <<>> THEN Len(s) + 1
    ELSE Cardinality({i \in 1..Len(s) : MatchAt(s, sub, i)})

StrCount(s, sub) == IF sub = <<>> THEN Len(s) + 1 ELSE CountFrom(s, sub, 1)

\* str.split(","): one field per comma, plus one
RECURSIVE SplitFrom(_, _, _)
SplitFrom(s, i, cur) ==
    IF i > Len(s) THEN <<cur>>
    ELSE IF s[i] = "," THEN <<cur>> \o SplitFrom(s, i + 1, <<>>)
    ELSE SplitFrom(s, i + 1, Append(cur, s[i]))

Split(s) == SplitFrom(s, 1, <<>>)

\* [k.strip() for k in keywords.split(",")]
SplitStrip(s) == LET f == Split(s) IN [i \in 1..Len(f) |-> Strip(f[i])]

(***************************************************************************)
(* re.findall                                                              *)
(***************************************************************************)
\* the letters: those with two cases, and the lower-case or caseless ones
Letters ==
    Range(UpperCase) \cup Range(LowerCase) \cup {"ß", "ÿ", "µ", "ª", "º"}
Digits == {"0", "1", "2", "3", "4", "5", "6", "7", "8", "9"}
\* the other characters that count as numeric: superscripts and fractions
Numerics == {"²", "³", "¹", "¼", "½", "¾"}

\* \w in a str pattern: alphanumeric by Unicode, or the underscore
WordChars == Letters \cup Digits \cup Numerics \cup {"_"}

IsWordChar(c) == c \in WordChars

\* [\w\'-]
InWordClass(c) == IsWordChar(c) \/ c \in {"'", "-"}

\* [.!?]
IsTerminator(c) == c \in {".", "!", "?"}

\* \b at offset p (between s[p] and s[p+1]): exactly one side is a \w character
Boundary(s, p) ==
    (p >= 1 /\ IsWordChar(s[p])) # (p < Len(s) /\ IsWordChar(s[p + 1]))

\* [\w\'-]+ from offset p, greedy: the offset where the run of class characters ends
RECURSIVE WordRunEnd(_, _)
WordRunEnd(s, p) ==
    IF p < Len(s) /\ InWordClass(s[p + 1]) THEN WordRunEnd(s, p + 1) ELSE p

\* [.!?]+ from offset p, greedy
RECURSIVE TerminatorRunEnd(_, _)
TerminatorRunEnd(s, p) ==
    IF p < Len(s) /\ IsTerminator(s[p + 1]) THEN TerminatorRunEnd(s, p + 1) ELSE p

\* one attempt of \b[\w\'-]+\b at offset p: the end offset of the match, or -1.
\* The + is greedy and gives characters back until the closing \b holds.
WordMatchEnd(s, p) ==
    IF ~Boundary(s, p) THEN -1
    ELSE LET e == WordRunEnd(s, p)
             ends == {q \in (p + 1)..e : Boundary(s, q)}
         IN  IF ends = {} THEN -1
             ELSE CHOOSE q \in ends : \A r \in ends : r <= q

\* re.findall(r'\b[\w\'-]+\b', s): the matches found scanning from offset p
RECURSIVE FindWords(_, _)
FindWords(s, p) ==
    IF p >= Len(s) THEN <<>>
    ELSE LET e == WordMatchEnd(s, p)
         IN  IF e = -1 THEN FindWords(s, p + 1)
             ELSE <<SubSeq(s, p + 1, e)>> \o FindWords(s, e)

\* re.findall(r'[.!?]+', s): the matches found scanning from offset p
RECURSIVE FindTerminators(_, _)
FindTerminators(s, p) ==
    IF p >= Len(s) THEN <<>>
    ELSE LET e == TerminatorRunEnd(s, p)
         IN  IF e = p THEN FindTerminators(s, p + 1)
             ELSE <<SubSeq(s, p + 1, e)>> \o FindTerminators(s, e)

(***************************************************************************)
(* Density and its rendering                                               *)
(***************************************************************************)
\* mutant: the third decimal is cut off instead of rounded
DensityTruncated(instances, word_count) ==
    IF word_count > 0 THEN (instances * 10000) \div word_count ELSE 0

\* A Python float is a binary64: a significand of 53 binary digits.  A
\* positive float is modelled as [bits, scale], its value being the integer
\* whose binary digits are bits (most significant first, no leading zero)
\* divided by 2^scale.
MantissaBits == 53

\* binary digits are handled this many at a time, as integers
ChunkBits == 24

\* the quotient is developed this many digits at a time
DivideStep == 4

\* the binary digits of a natural number
Binary(n) ==
    LET len == Cardinality({j \in 0..30 : n \div (2 ^ j) > 0})
    IN  [j \in 1..len |-> (n \div (2 ^ (len - j))) % 2]

\* the natural number of binary digits
RECURSIVE FromBinary(_)
FromBinary(bits) ==
    IF bits = <<>> THEN 0
    ELSE IF Len(bits) = 1 THEN bits[1]
    ELSE LET h == Len(bits) \div 2
         IN  FromBinary(SubSeq(bits, 1, h)) * (2 ^ (Len(bits) - h))
                 + FromBinary(SubSeq(bits, h + 1, Len(bits)))

\* digits brought to length n by zeros in front
Pad(bits, n) == [j \in 1..(n - Len(bits)) |-> 0] \o bits

\* digits without the zeros in front
Significant(bits) ==
    LET ones == {j \in 1..Len(bits) : bits[j] = 1}
    IN  IF ones = {} THEN <<>>
        ELSE SubSeq(bits, CHOOSE j \in ones : \A k \in ones : j <= k, Len(bits))

\* the digits of the number plus one
Increment(bits) ==
    LET zeros == {j \in 1..Len(bits) : bits[j] = 0}
    IN  IF zeros = {} THEN <<1>> \o [j \in 1..Len(bits) |-> 0]
        ELSE LET z == CHOOSE j \in zeros : \A k \in zeros : k <= j
             IN  [j \in 1..Len(bits) |->
                     IF j < z THEN bits[j] ELSE IF j = z THEN 1 ELSE 0]

\* the digits of the number times k, plus carry (k at most 100)
RECURSIVE Times(_, _, _)
Times(bits, k, carry) ==
    IF bits = <<>> THEN Binary(carry)
    ELSE LET n == IF Len(bits) < ChunkBits THEN Len(bits) ELSE ChunkBits
             t == FromBinary(SubSeq(bits, Len(bits) - n + 1, Len(bits))) * k + carry
         IN  Times(SubSeq(bits, 1, Len(bits) - n), k, t \div (2 ^ n))
                 \o Pad(Binary(t % (2 ^ n)), n)

\* round to nearest, ties to even: the first keep digits of bits, one added
\* when the digits dropped (followed by something non-zero when inexact) are
\* more than half a unit, or half a unit and the last digit kept is odd
RoundNearestEven(bits, keep, inexact) ==
    IF Len(bits) <= keep THEN bits
    ELSE LET kept == SubSeq(bits, 1, keep)
             half == bits[keep + 1] = 1
             more == inexact \/ \E j \in (keep + 2)..Len(bits) : bits[j] = 1
             odd == keep > 0 /\ bits[keep] = 1
         IN  IF half /\ (more \/ odd) THEN Increment(kept) ELSE kept

\* long division: the significant digits of a quotient, more than MantissaBits
\* of them, whose digits so far are bits, scale of them after the point, r out
\* of w being left to divide
RECURSIVE QuotientBits(_, _, _, _)
QuotientBits(r, w, bits, scale) ==
    IF Len(bits) > MantissaBits
    THEN [bits |-> bits, scale |-> scale, inexact |-> r # 0]
    ELSE LET d == r * (2 ^ DivideStep)
         IN  QuotientBits(d % w, w,
                          Significant(bits \o Pad(Binary(d \div w), DivideStep)),
                          scale + DivideStep)

\* a / b on floats holding the positive integers a and b
FloatDivide(a, b) ==
    LET q == QuotientBits(a % b, b, Binary(a \div b), 0)
    IN  [bits |-> RoundNearestEven(q.bits, MantissaBits, q.inexact),
         scale |-> q.scale - (Len(q.bits) - MantissaBits)]

\* x * k on floats, k a small positive integer
FloatTimes(x, k) ==
    LET p == Times(x.bits, k, 0)
    IN  [bits |-> RoundNearestEven(p, MantissaBits, FALSE),
         scale |-> IF Len(p) > MantissaBits
                   THEN x.scale - (Len(p) - MantissaBits) ELSE x.scale]

\* the digits '.2f' shows of a float, as a number of hundredths: the exact value
\* of the float rounded to two decimals, ties to even
Hundredths(x) ==
    LET p == Times(x.bits, 100, 0)
        keep == Len(p) - x.scale
    IN  IF keep < 0 THEN 0
        ELSE IF x.scale <= 0 THEN FromBinary(p) * 2 ^ (0 - x.scale)
        ELSE FromBinary(RoundNearestEven(p, keep, FALSE))

\* instances / word_count * 100 for positive counts, in hundredths of a percent
\* as '.2f' shows it
FloatDensity(instances, word_count) ==
    Hundredths(FloatTimes(FloatDivide(instances, word_count), 100))

\* FloatDensity of the small counts, worked out once and held as a tuple: the
\* entry for instances and word_count (at most 32 and 8) is at
\* (instances - 1) * 8 + word_count
DensityOfFew ==
    <<>> \o [k \in 1..256 |-> FloatDensity(((k - 1) \div 8) + 1, ((k - 1) % 8) + 1)]

\* (instances / word_count * 100) if word_count > 0 else 0, in hundredths of a
\* percent as '.2f' shows it
DensityHundredths(instances, word_count) ==
    IF word_count > 0 /\ instances > 0
    THEN IF instances <= 32 /\ word_count <= 8
         THEN DensityOfFew[(instances - 1) * 8 + word_count]
         ELSE FloatDensity(instances, word_count)
    ELSE 0

\* f"{density:.2f}%"
FormatDensity(h) ==
    ToString(h \div 100) \o "." \o ToString((h % 100) \div 10)
        \o ToString(h % 10) \o "%"

(***************************************************************************)
(* analyze_content                                                         *)
(***************************************************************************)
KeywordRecord(content, word_count, keyword, kw) ==
    LET instances == StrCount(Lower(content), kw)
    IN  [Keyword |-> keyword,
         Instances |-> instances,
         Density |-> FormatDensity(DensityHundredths(instances, word_count))]

analyze_content(content, keywords) ==
    IF content = <<>>
    THEN [word_count |-> 0, sentence_count |-> 0, results |-> <<>>]
    ELSE LET word_count == Len(FindWords(content, 0))
         IN  [word_count |-> word_count,
              sentence_count |-> Len(FindTerminators(content, 0)),
              results |-> [i \in 1..Len(keywords) |->
                  KeywordRecord(content, word_count, keywords[i],
                                Lower(Strip(keywords[i])))]]

(***************************************************************************)
(* Parsed documents                                                        *)
(*                                                                         *)
(* A document is the sequence of its nodes in document order.  A node is   *)
(* [parent, name, class, style, text]: parent is the index of the parent   *)
(* node (0: the BeautifulSoup object), name is the tag name (StringNode   *)
(* for a string), class and style are the attribute strings (None: absent), *)
(* text is the string of a string node.                                    *)
(***************************************************************************)
Tag(name, class, style) ==
    [parent |-> 0, name |-> name, class |-> class, style |-> style, text |-> <<>>]

Text(t) ==
    [parent |-> 0, name |-> StringNode, class |-> None, style |-> None, text |-> t]

IsTag(n) == n.name # StringNode

\* element.parent and its parents, the element itself included
RECURSIVE AncestorsOrSelf(_, _)
AncestorsOrSelf(doc, i) ==
    IF i = 0 THEN {} ELSE {i} \cup AncestorsOrSelf(doc, doc[i].parent)

\* an element and everything below it
Subtree(doc, e) == {i \in 1..Len(doc) : e \in AncestorsOrSelf(doc, i)}

\* the nodes below e, e itself excluded (Tag.descendants; e = 0 is the soup)
Descendants(doc, e) ==
    IF e = 0 THEN 1..Len(doc) ELSE Subtree(doc, e) \ {e}

Min(S) == CHOOSE x \in S : \A y \in S : x <= y

\* the elements of a set of node indices in document order
RECURSIVE InOrder(_)
InOrder(S) == IF S = {} THEN <<>> ELSE <<Min(S)>> \o InOrder(S \ {Min(S)})

(***************************************************************************)
(* get_clean_content, after the page source is parsed                      *)
(***************************************************************************)
\* the list handed to soup(...): find_all by tag name
Unwanted == {"nav", "header", "footer", "aside", "script", "style", "form",
             "button", "div.footer", "div.navbar"}

\* soup([...]): every tag in the tree whose name is one of the list
FindAllUnwanted(doc) ==
    InOrder({i \in 1..Len(doc) : IsTag(doc[i]) /\ doc[i].name \in Unwanted})

\* mutant: only the element itself leaves the tree
DecomposeShallow(doc, live, e) == live \ {e}

\* element.decompose(): the element and its subtree leave the tree
Decompose(doc, live, e) == live \ Subtree(doc, e)

\* for element in soup([...]): element.decompose()
RECURSIVE DecomposeEach(_, _, _)
DecomposeEach(doc, found, live) ==
    IF found = <<>> THEN live
    ELSE DecomposeEach(doc, Tail(found), Decompose(doc, live, Head(found)))

RemoveUnwanted(doc) == DecomposeEach(doc, FindAllUnwanted(doc), 1..Len(doc))

S_content == <<"c", "o", "n", "t", "e", "n", "t">>
S_main == <<"m", "a", "i", "n">>
S_article == <<"a", "r", "t", "i", "c", "l", "e">>
S_display_none == <<"d", "i", "s", "p", "l", "a", "y", ":", " ", "n", "o", "n", "e">>
S_visibility_hidden == <<"v", "i", "s", "i", "b", "i", "l", "i", "t", "y", ":", " ", "h", "i", "d", "d", "e", "n">>

\* lambda x: x and ('content' in x.lower() or 'main' in x.lower() or 'article' in x.lower())
ClassPredicate(x) ==
    /\ x # None
    /\ x # <<>>
    /\ \/ Contains(Lower(x), S_content)
       \/ Contains(Lower(x), S_main)
       \/ Contains(Lower(x), S_article)

\* the whitespace-separated values of a class attribute, as bs4 stores them
RECURSIVE TokensFrom(_, _, _)
TokensFrom(s, i, cur) ==
    IF i > Len(s) THEN (IF cur = <<>> THEN <<>> ELSE <<cur>>)
    ELSE IF s[i] \in Whitespace
         THEN (IF cur = <<>> THEN <<>> ELSE <<cur>>) \o TokensFrom(s, i + 1, <<>>)
         ELSE TokensFrom(s, i + 1, Append(cur, s[i]))

ClassValues(class) == TokensFrom(class, 1, <<>>)

RECURSIVE JoinWith(_, _)
JoinWith(parts, sep) ==
    IF parts = <<>> THEN <<>>
    ELSE IF Len(parts) = 1 THEN parts[1]
    ELSE parts[1] \o sep \o JoinWith(Tail(parts), sep)

\* class_=<function> against a tag: the function is tried on each value of the
\* class attribute, then on the values joined by a space; on None when absent
ClassMatches(node) ==
    IF node.class = None THEN ClassPredicate(None)
    ELSE LET values == ClassValues(node.class)
         IN  \/ \E i \in 1..Len(values) : ClassPredicate(values[i])
             \/ ClassPredicate(JoinWith(values, <<" ">>))

\* soup.find(name): the first tag of that name still in the tree, or 0 for None
Find(doc, live, name) ==
    LET hits == {i \in live : doc[i].name = name}
    IN  IF hits = {} THEN 0 ELSE Min(hits)

\* soup.find('div', class_=lambda ...)
FindDivByClass(doc, live) ==
    LET hits == {i \in live : doc[i].name = "div" /\ ClassMatches(doc[i])}
    IN  IF hits = {} THEN 0 ELSE Min(hits)

\* mutant: <article> is tried before <main>
MainContentArticleFirst(doc, live) ==
    IF Find(doc, live, "article") # 0 THEN Find(doc, live, "article")
    ELSE IF Find(doc, live, "main") # 0 THEN Find(doc, live, "main")
    ELSE FindDivByClass(doc, live)

\* soup.find('main') or soup.find('article') or soup.find('div', class_=...)
\* (a Tag is always truthy)
MainContent(doc, live) ==
    IF Find(doc, live, "main") # 0 THEN Find(doc, live, "main")
    ELSE IF Find(doc, live, "article") # 0 THEN Find(doc, live, "article")
    ELSE FindDivByClass(doc, live)

\* the test on element.parent at main.py:52-53
ParentShows(parent) ==
    /\ parent.name \notin {"script", "style"}
    /\ \/ parent.style = None
       \/ /\ ~Contains(parent.style, S_display_none)
          /\ ~Contains(parent.style, S_visibility_hidden)

\* main_content.find_all(text=True), filtered and stripped: the list `content`
RECURSIVE CollectText(_, _)
CollectText(doc, strings) ==
    IF strings = <<>> THEN <<>>
    ELSE LET element == doc[Head(strings)]
             rest == CollectText(doc, Tail(strings))
         IN  IF ParentShows(doc[element.parent])
             THEN <<Strip(element.text)>> \o rest
             ELSE rest

\* ' '.join([text for text in content if text])
JoinNonEmpty(content) ==
    JoinWith(SelectSeq(content, LAMBDA t : t # <<>>), <<" ">>)

\* main.py:41-56 on the parsed page
ExtractContent(doc) ==
    LET live == RemoveUnwanted(doc)
        root == MainContent(doc, live)
    IN  IF root # 0
        THEN JoinNonEmpty(CollectText(doc,
                 InOrder({i \in Descendants(doc, root) \cap live :
                              ~IsTag(doc[i])})))
        ELSE <<>>

(***************************************************************************)
(* The documents the extractor is run on: every tree of at most MaxNodes   *)
(* nodes built from the node kinds below.  The string node at index i      *)
(* holds the digit i between whitespace (a line end before it, a no-break  *)
(* space after it), so each string of the output names the node it came    *)
(* from.                                                                   *)
(***************************************************************************)
MaxNodes == 4

ElementKinds ==
    {Tag("main", None, None),
     Tag("article", None, None),
     Tag("div", <<"C", "o", "n", "t", "e", "n", "t">>, None),
     Tag("div", <<"f", "o", "o", "t", "e", "r">>, None),
     Tag("nav", None, None),
     Tag("footer", None, None)}

NodeText(i) == <<"\r", "\n", ToString(i), " ">>

NodeKinds(i) == ElementKinds \cup {Text(NodeText(i))}

\* where the next node of a document in document order may hang: the soup, or a
\* tag on the path from the last node up
OpenTags(doc) ==
    {0} \cup {a \in AncestorsOrSelf(doc, Len(doc)) : IsTag(doc[a])}

(***************************************************************************)
(* The analyzer on its own: a text and a keyword input are typed or        *)
(* pasted, then analyze_content or the Keyword Tool tab runs on them.      *)
(***************************************************************************)
TextAlphabet == {"a", "A", " ", ".", "-"}
KeywordAlphabet == {"a", "A", " ", ","}

ExampleText == <<"S", "E", "O", " ", "i", "s", " ", "g", "r", "e", "a", "t", ".", " ", "S", "E", "O", " ", "h", "e", "l", "p", "s", ".">>
\* "aa aa a.": three words, so that densities need rounding
ThirdsText == <<"a", "a", " ", "a", "a", " ", "a", ".">>
\* "Été été.": letters outside ASCII, one of them upper case
AccentText == <<"É", "t", "é", " ", "é", "t", "é", ".">>
SampleTexts == {ExampleText, ThirdsText, AccentText}
ExampleKeywords == <<"S", "E", "O">>
\* "été" after a no-break space and before a carriage return
AccentKeywords == <<" ", "é", "t", "é", "\r">>
SampleKeywords == {ExampleKeywords, AccentKeywords}

NoCall == [fn |-> "none", word_count |-> 0, sentence_count |-> 0, results |-> <<>>]

\* the keyword list handed to analyze_content: the fields typed, as typed
KeywordsTyped(s) == IF s = <<>> THEN <<>> ELSE Split(s)

\* mutant: the fields are not trimmed
ToolKeywordsUntrimmed(s) == Split(s)

\* main.py:202
ToolKeywordsList(s) == SplitStrip(s)

\* main.py:208-217: one row of the Keyword Tool tab
ToolRecord(text, word_count, keyword) ==
    LET kw == Lower(keyword)
        instances == StrCount(Lower(text), kw)
    IN  [Keyword |-> keyword,
         Instances |-> instances,
         Density |-> FormatDensity(DensityHundredths(instances, word_count))]

\* main.py:202-217: the Keyword Tool tab's own count
KeywordTool(text, keywords) ==
    LET list == ToolKeywordsList(keywords)
        word_count == Len(FindWords(text, 0))
    IN  [word_count |-> word_count,
         results |-> [i \in 1..Len(list) |-> ToolRecord(text, word_count, list[i])]]

AnalyzerIdle ==
    /\ page = <<>> /\ main_content = -1 /\ extracted = None
    /\ pc = "ready" /\ sessions = 0 /\ errors = <<>> /\ warnings = <<>>
    /\ shown = <<>> /\ urls = Unbound /\ keywords_list = <<>> /\ idx = 0
    /\ results = <<>> /\ progress = <<0, 0>> /\ fetches = <<>>
    /\ driver = NoDriver

InitAnalyze ==
    /\ text_content = <<>>
    /\ tool_keywords = <<>>
    /\ call = NoCall
    /\ AnalyzerIdle

\* a character typed into the text; the rerun clears what was shown
TypeText ==
    /\ Len(text_content) < MaxTextLen
    /\ \E c \in TextAlphabet : text_content' = Append(text_content, c)
    /\ call' = NoCall
    /\ UNCHANGED <<tool_keywords, extractorVars, appVars>>

\* a character typed into the keyword input
TypeKeywords ==
    /\ Len(tool_keywords) < MaxKwStr
    /\ \E c \in KeywordAlphabet : tool_keywords' = Append(tool_keywords, c)
    /\ call' = NoCall
    /\ UNCHANGED <<text_content, extractorVars, appVars>>

PasteText ==
    /\ \E t \in SampleTexts : text_content' = t
    /\ call' = NoCall
    /\ UNCHANGED <<tool_keywords, extractorVars, appVars>>

PasteKeywords ==
    /\ \E k \in SampleKeywords : tool_keywords' = k
    /\ call' = NoCall
    /\ UNCHANGED <<text_content, extractorVars, appVars>>

\* analyze_content(text_content, the keywords typed)
Analyze ==
    /\ call.fn = "none"
    /\ LET out == analyze_content(text_content, KeywordsTyped(tool_keywords))
       IN  call' = [fn |-> "analyze_content",
                    word_count |-> out.word_count,
                    sentence_count |-> out.sentence_count,
                    results |-> out.results]
    /\ UNCHANGED <<text_content, tool_keywords, extractorVars, appVars>>

\* main.py:200-217: "Analyze Keywords" pressed on the Keyword Tool tab
AnalyzeKeywords ==
    /\ call.fn = "none"
    /\ text_content # <<>>
    /\ tool_keywords # <<>>
    /\ LET out == KeywordTool(text_content, tool_keywords)
       IN  call' = [fn |-> "keyword_tool",
                    word_count |-> out.word_count,
                    sentence_count |-> 0,
                    results |-> out.results]
    /\ UNCHANGED <<text_content, tool_keywords, extractorVars, appVars>>

NextAnalyze ==
    \/ TypeText
    \/ TypeKeywords
    \/ PasteText
    \/ PasteKeywords
    \/ Analyze
    \/ AnalyzeKeywords

SpecAnalyze == InitAnalyze /\ [][NextAnalyze]_vars

(***************************************************************************)
(* The extractor on its own: the parser builds the page node by node, then *)
(* main.py:41-56 runs on it.                                               *)
(***************************************************************************)
InitExtract ==
    /\ page = <<>>
    /\ main_content = -1
    /\ extracted = None
    /\ text_content = <<>> /\ tool_keywords = <<>> /\ call = NoCall
    /\ pc = "ready" /\ sessions = 0 /\ errors = <<>> /\ warnings = <<>>
    /\ shown = <<>> /\ urls = Unbound /\ keywords_list = <<>> /\ idx = 0
    /\ results = <<>> /\ progress = <<0, 0>> /\ fetches = <<>>
    /\ driver = NoDriver

\* BeautifulSoup(driver.page_source, 'html.parser') appends the next node
ParseNode ==
    /\ main_content = -1
    /\ Len(page) < MaxNodes
    /\ \E p \in OpenTags(page), k \in NodeKinds(Len(page) + 1) :
           page' = Append(page, [k EXCEPT !.parent = p])
    /\ UNCHANGED <<main_content, extracted, analyzerVars, appVars>>

\* main.py:41-56
Extract ==
    /\ main_content = -1
    /\ main_content' = MainContent(page, RemoveUnwanted(page))
    /\ extracted' = ExtractContent(page)
    /\ UNCHANGED <<page, analyzerVars, appVars>>

NextExtract == ParseNode \/ Extract

SpecExtract == InitExtract /\ [][NextExtract]_vars

(***************************************************************************)
(* Claims about the analyzer (checked under SpecAnalyze)                   *)
(***************************************************************************)
Analyzed == call.fn = "analyze_content"

\* C3: for every text, the empty text included, and every keyword list K,
\* analyze_content returns exactly one record per entry of K, the i-th record
\* being for K[i]; analyze("", ["anything"]) yields one record (instances 0,
\* density 0.00%).
C3_OneRecordPerKeyword ==
    Analyzed =>
        LET K == KeywordsTyped(tool_keywords)
        IN  /\ Len(call.results) = Len(K)
            /\ \A i \in 1..Len(K) : call.results[i].Keyword = K[i]
            /\ text_content = <<>> =>
                   /\ call.word_count = 0
                   /\ \A i \in 1..Len(K) :
                          /\ call.results[i].Instances = 0
                          /\ call.results[i].Density = "0.00%"

\* the start indices where sub occurs in s
Occurrences(s, sub) == {i \in 1..Len(s) : MatchAt(s, sub, i)}

\* the largest number of occurrences of sub in s no two of which overlap
MaxDisjointOccurrences(s, sub) ==
    LET packs == {P \in SUBSET Occurrences(s, sub) :
                     \A a, b \in P : a < b => a + Len(sub) <= b}
    IN  CHOOSE n \in 0..Len(s) :
            /\ \E P \in packs : Cardinality(P) = n
            /\ \A P \in packs : Cardinality(P) <= n

\* C5: for every non-empty text T and every keyword k whose trimmed form is
\* non-empty, the reported instances is the number of non-overlapping occurrences
\* of lower(trim(k)) as a contiguous substring of lower(T).
C5_InstancesAreDisjointOccurrences ==
    (Analyzed /\ text_content # <<>>) =>
        LET K == KeywordsTyped(tool_keywords)
        IN  \A i \in 1..Len(K) :
                Strip(K[i]) # <<>> =>
                    call.results[i].Instances =
                        MaxDisjointOccurrences(Lower(text_content), Lower(Strip(K[i])))

\* "aa" in "aaa" is counted once
C5_Witness ==
    /\ Analyzed
    /\ text_content = <<"a", "a", "a">>
    /\ tool_keywords = <<"a", "a">>
    /\ call.results[1].Instances = 1

\* the words of s: one per maximal run of [\w'-] characters holding a \w character,
\* counted at the first \w character of the run
WordStarts(s) ==
    {i \in 1..Len(s) :
        /\ IsWordChar(s[i])
        /\ ~\E j \in 1..(i - 1) :
               /\ IsWordChar(s[j])
               /\ \A k \in j..i : InWordClass(s[k])}

\* the maximal runs of . ! ? in s, counted at their first character
TerminatorRunStarts(s) ==
    {i \in 1..Len(s) : IsTerminator(s[i]) /\ (i = 1 \/ ~IsTerminator(s[i - 1]))}

\* h hundredths of a percent is instances / word_count x 100 to the nearest hundredth
NearestHundredth(h, instances, word_count) ==
    LET d == h * word_count - instances * 10000
    IN  2 * (IF d < 0 THEN -d ELSE d) <= word_count

\* C6: for every non-empty text, word_count is the number of word tokens,
\* sentence_count the number of maximal runs of . ! ?, and each density is
\* instances / word_count x 100 with two decimals and a trailing % (0.00% when
\* word_count is 0); "SEO is great. SEO helps." with "SEO" gives 5, 2, 2, 40.00%.
C6_CountsAndDensity ==
    (Analyzed /\ text_content # <<>>) =>
        /\ call.word_count = Cardinality(WordStarts(text_content))
        /\ call.sentence_count = Cardinality(TerminatorRunStarts(text_content))
        /\ \A i \in 1..Len(call.results) :
               LET r == call.results[i]
               IN  IF call.word_count = 0 THEN r.Density = "0.00%"
                   ELSE \E h \in {(r.Instances * 10000) \div call.word_count,
                                  (r.Instances * 10000) \div call.word_count + 1} :
                            /\ NearestHundredth(h, r.Instances, call.word_count)
                            /\ r.Density = FormatDensity(h)
        /\ (text_content = ExampleText /\ tool_keywords = ExampleKeywords) =>
               /\ call.word_count = 5
               /\ call.sentence_count = 2
               /\ call.results[1].Instances = 2
               /\ call.results[1].Density = "40.00%"
        /\ (text_content = ThirdsText /\ tool_keywords = <<"a", "a">>) =>
               call.results[1].Density = "66.67%"

\* the example of the specification, analysed
C6_Witness ==
    /\ Analyzed
    /\ text_content = ExampleText
    /\ tool_keywords = ExampleKeywords
    /\ call.word_count = 5
    /\ call.sentence_count = 2
    /\ call.results[1].Density = "40.00%"

\* C10: the Keyword Tool tab's word_count and ordered records (Keyword, Instances,
\* Density) equal what analyze_content returns for the same text and the same
\* split-and-trimmed keyword list.
C10_ToolEqualsAnalyzeContent ==
    call.fn = "keyword_tool" =>
        LET ref == analyze_content(text_content, SplitStrip(tool_keywords))
        IN  /\ call.word_count = ref.word_count
            /\ call.results = ref.results

\* the tab ran on a keyword input whose fields need trimming, and found the keyword
C10_Witness ==
    /\ call.fn = "keyword_tool"
    /\ tool_keywords = <<" ", "A", ",">>
    /\ text_content = <<"a", " ", "a">>
    /\ Len(call.results) = 2
    /\ call.results[1].Instances = 2

(***************************************************************************)
(* Claims about the extractor (checked under SpecExtract)                  *)
(***************************************************************************)
Extracted == main_content # -1

StringNodes == {i \in 1..Len(page) : ~IsTag(page[i])}

\* the string of node i is part of the output (it holds the digit i, and no
\* other node does)
Appears(i) == ToString(i) \in Range(extracted)

BoilerplateTags ==
    {"nav", "header", "footer", "aside", "script", "style", "form", "button"}

InsideBoilerplate(i) ==
    \E a \in AncestorsOrSelf(page, i) : page[a].name \in BoilerplateTags

HasBoilerplateClass(n) ==
    /\ IsTag(n)
    /\ n.class # None
    /\ (Contains(n.class, <<"f", "o", "o", "t", "e", "r">>) \/ Contains(n.class, <<"n", "a", "v", "b", "a", "r">>))

\* C4: every element whose class attribute contains "footer" or "navbar" is
\* removed with all its descendants before the content root is selected, so no
\* text inside such an element appears in the output.
C4_ClassFooterNavbarRemoved ==
    Extracted =>
        \A i \in StringNodes :
            (\E a \in AncestorsOrSelf(page, i) : HasBoilerplateClass(page[a]))
                => ~Appears(i)

\* 1: <main>, 2: <article>, 3: <div> whose class contains content, main or
\* article in any case, 0: not a candidate
Priority(n) ==
    IF n.name = "main" THEN 1
    ELSE IF n.name = "article" THEN 2
    ELSE IF /\ n.name = "div"
            /\ n.class # None
            /\ \/ Contains(Lower(n.class), S_content)
               \/ Contains(Lower(n.class), S_main)
               \/ Contains(Lower(n.class), S_article)
         THEN 3
    ELSE 0

\* the root candidates left after the exclusion
Candidates ==
    {i \in 1..Len(page) : Priority(page[i]) > 0 /\ ~InsideBoilerplate(i)}

\* C7: the output is built from exactly one content root chosen in strict
\* priority (first <main>, else first <article>, else first <div> whose class
\* contains content, main or article), text outside the chosen root is not
\* output, and with no candidate the result is the empty string.
C7_RootByPriority ==
    Extracted =>
        LET candidates == Candidates
        IN  /\ candidates = {} => (main_content = 0 /\ extracted = <<>>)
            /\ candidates # {} =>
                   /\ main_content \in candidates
                   /\ \A c \in candidates :
                          \/ Priority(page[main_content]) < Priority(page[c])
                          \/ /\ Priority(page[main_content]) = Priority(page[c])
                             /\ main_content <= c
            /\ \A i \in StringNodes :
                   Appears(i) => main_content \in AncestorsOrSelf(page, i)

\* an <article> holding text comes first, an empty <main> follows: the <main> is
\* the root and nothing is output
C7_Witness ==
    /\ Extracted
    /\ Len(page) = 3
    /\ page[1].name = "article"
    /\ page[2].name = StringNode /\ page[2].parent = 1
    /\ page[3].name = "main" /\ page[3].parent = 0
    /\ main_content = 3
    /\ extracted = <<>>

\* C8: no text inside a nav, header, footer, aside, script, style, form or
\* button element is output, whether the element is beside the content root or
\* inside it, and a root candidate inside such an element is never chosen; a
\* <main> with a sibling <nav> yields the <main> text only, a lone <footer>
\* yields the empty string.
C8_NoBoilerplateText ==
    Extracted =>
        /\ \A i \in StringNodes : InsideBoilerplate(i) => ~Appears(i)
        /\ main_content # 0 => ~InsideBoilerplate(main_content)
        /\ (\A i \in 1..Len(page) : InsideBoilerplate(i)) => extracted = <<>>

\* a <main> holding a string and a <nav> that holds a string: only the first
\* string is output
C8_Witness ==
    /\ Extracted
    /\ Len(page) = 4
    /\ page[1].name = "main"
    /\ page[2].name = StringNode /\ page[2].parent = 1
    /\ page[3].name = "nav" /\ page[3].parent = 1
    /\ page[4].name = StringNode /\ page[4].parent = 3
    /\ extracted = <<"2">>

(***************************************************************************)
(* The application: the Single URL and Bulk handlers around                *)
(* get_clean_content and analyze_content.                                  *)
(***************************************************************************)
MaxUrls == 3
MaxSessions == 2

URLs == {"https://a.example", "https://b.example"}

KeywordInputs == {<<>>, <<"a">>, <<"a", ",", " ", "A">>}

\* a page with text in <main>, some of it in a hidden <span>, and text in a <nav>
\* beside the <main>
PageWithContent ==
    <<Tag("nav", None, None),
      [Text(<<"b">>) EXCEPT !.parent = 1],
      Tag("main", None, None),
      [Text(<<" ", "\n", "a", " ", "A", ".", "\r", "\n">>) EXCEPT !.parent = 3],
      [Tag("span", None, S_display_none) EXCEPT !.parent = 3],
      [Text(<<"b">>) EXCEPT !.parent = 5]>>

\* a page with nothing but a <footer>
PageFooterOnly ==
    <<Tag("footer", None, None),
      [Text(<<"a">>) EXCEPT !.parent = 1]>>

Pages == {PageWithContent, PageFooterOnly}

\* what the browser does during one get_clean_content call: webdriver.Chrome(...)
\* raises, driver.get(url) raises, driver.page_source or the parser raises, or the
\* page is rendered and parsed
Browser(kind, doc) == [kind |-> kind, page |-> doc]

\* the calls that end before time.sleep(5): lines 33 or 34 raise (open: the
\* webdrivers open when the call began)
BrowsersBeforeWait(open) ==
    {Browser("driver_error", <<>>)}
        \cup (IF open < MaxSessions THEN {Browser("get_error", <<>>)} ELSE {})

\* the calls that go through time.sleep(5): line 38 raises, or the page is parsed
BrowsersAfterWait(open) ==
    {Browser("page", d) : d \in Pages}
        \cup (IF open < MaxSessions THEN {Browser("source_error", <<>>)} ELSE {})

\* main.py:20-59.  started: webdriver.Chrome(...) returned (line 33); quit:
\* driver.quit() was reached (line 39); error: the except clause ran (lines 57-59)
get_clean_content(browser) ==
    LET started == browser.kind # "driver_error"
        parsed == browser.kind = "page"
    IN  [started |-> started,
         quit |-> started /\ parsed,
         error |-> ~parsed,
         content |-> IF parsed THEN ExtractContent(browser.page) ELSE <<>>]

\* the sessions a call leaves open
Leaked(r) == IF r.started /\ ~r.quit THEN 1 ELSE 0

ErrorProcessing(url) == [msg |-> "Error processing", url |-> url]
NoContentWarning == "No content found on the page. Please check the URL."
ProvideBothWarning == "Please provide both URL and keywords."
NoValidContentWarning == "No valid content found in provided URLs."
BulkError == [msg |-> "Error processing bulk analysis", url |-> ""]

Fetch(url, browser, r) == [url |-> url, kind |-> browser.kind, content |-> r.content]

\* main.py:167-172: the row of one URL
Row(url, out, kws) ==
    [URL |-> url,
     WordCount |-> out.word_count,
     SentenceCount |-> out.sentence_count,
     Density |-> [kw \in Range(kws) |->
         LET hits == {i \in 1..Len(out.results) : out.results[i].Keyword = kw}
         IN  IF hits = {} THEN "0.00%" ELSE out.results[Min(hits)].Density]]

\* mutant: a row is added whether or not the page had content
NextResultsAlways(rows, url, content, kws) ==
    Append(rows, Row(url, analyze_content(content, kws), kws))

\* main.py:164-172: the loop body after get_clean_content
NextResults(rows, url, content, kws) ==
    IF content # <<>>
    THEN Append(rows, Row(url, analyze_content(content, kws), kws))
    ELSE rows

UrlLists == UNION {[1..n -> URLs] : n \in 0..MaxUrls}

Init ==
    /\ pc = "ready"
    /\ sessions = 0
    /\ errors = <<>>
    /\ warnings = <<>>
    /\ shown = <<>>
    /\ urls = Unbound
    /\ keywords_list = <<>>
    /\ idx = 0
    /\ results = <<>>
    /\ progress = <<0, 0>>
    /\ fetches = <<>>
    /\ driver = NoDriver
    /\ text_content = <<>> /\ tool_keywords = <<>> /\ call = NoCall
    /\ page = <<>> /\ main_content = -1 /\ extracted = None

BulkLocalsGone ==
    /\ urls' = Unbound
    /\ keywords_list' = <<>>
    /\ idx' = 0
    /\ results' = <<>>
    /\ progress' = <<0, 0>>

\* main.py:96-137 from the return of get_clean_content on: open webdrivers were
\* open when the call began
SingleReturn(url, keywords, browser, open) ==
    LET r == get_clean_content(browser)
        out == analyze_content(r.content, SplitStrip(keywords))
    IN  /\ sessions' = open + Leaked(r)
        /\ errors' = IF r.error THEN <<ErrorProcessing(url)>> ELSE <<>>
        /\ fetches' = <<Fetch(url, browser, r)>>
        /\ IF r.content # <<>>
           THEN /\ shown' = <<[tab |-> "single",
                               word_count |-> out.word_count,
                               sentence_count |-> out.sentence_count,
                               analysis |-> out.results]>>
                /\ warnings' = <<>>
           ELSE /\ shown' = <<>>
                /\ warnings' = <<NoContentWarning>>
        /\ pc' = "single_done"
        /\ driver' = NoDriver

\* main.py:93-97, 20-35: "Analyze Single URL" pressed with a URL and keywords.
\* The call ends at once when line 33 or 34 raises, and the handler goes on to
\* its end; otherwise the script waits in time.sleep(5) with the webdriver open
SingleAnalyze ==
    /\ pc # "bulk_loop"
    /\ driver = NoDriver
    /\ \E url \in URLs, keywords \in KeywordInputs \ {<<>>} :
           \/ \E browser \in BrowsersBeforeWait(sessions) :
                  SingleReturn(url, keywords, browser, sessions)
           \/ /\ sessions' = sessions + 1
              /\ driver' = [tab |-> "single", url |-> url, keywords |-> keywords]
              /\ errors' = <<>>
              /\ warnings' = <<>>
              /\ shown' = <<>>
              /\ fetches' = <<>>
              /\ pc' = pc
    /\ BulkLocalsGone
    /\ UNCHANGED <<analyzerVars, extractorVars>>

\* main.py:35-59, 97-137: time.sleep(5) returns, the call and the handler go on
\* to their end
SingleAwake ==
    /\ driver.tab = "single"
    /\ \E browser \in BrowsersAfterWait(sessions - 1) :
           SingleReturn(driver.url, driver.keywords, browser, sessions - 1)
    /\ UNCHANGED <<urls, keywords_list, idx, results, progress, analyzerVars,
                   extractorVars>>

\* main.py:93, 147, 200: the script runs with neither "Analyze Single URL" nor
\* "Analyze Bulk URLs" pressed (an input edited, a checkbox or a download button
\* of the last output used, the Keyword Tool tab used): no handler of the first
\* two tabs runs, and nothing of them is rendered
NoHandler ==
    /\ pc # "bulk_loop"
    /\ driver = NoDriver
    /\ errors' = <<>>
    /\ warnings' = <<>>
    /\ shown' = <<>>
    /\ fetches' = <<>>
    /\ BulkLocalsGone
    /\ UNCHANGED <<pc, sessions, driver, analyzerVars, extractorVars>>

\* main.py:138-139: the button pressed with the URL or the keywords left empty
SingleMissingInput ==
    /\ pc # "bulk_loop"
    /\ driver = NoDriver
    /\ warnings' = <<ProvideBothWarning>>
    /\ errors' = <<>>
    /\ shown' = <<>>
    /\ fetches' = <<>>
    /\ pc' = "single_done"
    /\ BulkLocalsGone
    /\ UNCHANGED <<sessions, driver, analyzerVars, extractorVars>>

\* main.py:147-161: "Analyze Bulk URLs" pressed.  The upload is read into urls
\* by the branch its name selects, or no branch runs and urls stays unbound;
\* then keywords_list and results are bound and st.progress(0) is called
BulkStart ==
    /\ pc # "bulk_loop"
    /\ driver = NoDriver
    /\ \E list \in UrlLists \cup {Unbound}, keywords \in KeywordInputs \ {<<>>} :
           /\ urls' = list
           /\ keywords_list' = SplitStrip(keywords)
    /\ results' = <<>>
    /\ idx' = 0
    /\ progress' = <<0, 1>>
    /\ errors' = <<>>
    /\ warnings' = <<>>
    /\ shown' = <<>>
    /\ fetches' = <<>>
    /\ pc' = "bulk_loop"
    /\ UNCHANGED <<sessions, driver, analyzerVars, extractorVars>>

\* main.py:149-154, 191-192: pd.read_csv or pd.read_excel raises on the upload,
\* before keywords_list is bound and before st.progress(0)
BulkReadError ==
    /\ pc # "bulk_loop"
    /\ driver = NoDriver
    /\ errors' = <<BulkError>>
    /\ warnings' = <<>>
    /\ shown' = <<>>
    /\ fetches' = <<>>
    /\ pc' = "bulk_done"
    /\ BulkLocalsGone
    /\ UNCHANGED <<sessions, driver, analyzerVars, extractorVars>>

\* main.py:162, 191-192: enumerate(urls) with urls unbound raises NameError,
\* which the handler's except clause reports; what lines 158-161 set stays
BulkNameError ==
    /\ pc = "bulk_loop"
    /\ driver = NoDriver
    /\ urls = Unbound
    /\ errors' = Append(errors, BulkError)
    /\ pc' = "bulk_done"
    /\ UNCHANGED <<sessions, warnings, shown, urls, keywords_list, idx, results,
                   progress, fetches, driver, analyzerVars, extractorVars>>

\* main.py:163-173 from the return of get_clean_content on: the rest of the
\* iteration
BulkReturn(browser, open) ==
    LET url == urls[idx + 1]
        r == get_clean_content(browser)
    IN  /\ sessions' = open + Leaked(r)
        /\ errors' = IF r.error THEN Append(errors, ErrorProcessing(url))
                     ELSE errors
        /\ fetches' = Append(fetches, Fetch(url, browser, r))
        /\ results' = NextResults(results, url, r.content, keywords_list)
        /\ progress' = <<idx + 1, Len(urls)>>
        /\ idx' = idx + 1
        /\ driver' = NoDriver

\* main.py:162-163, 20-35: the next iteration of the loop begins.  The call ends
\* at once when line 33 or 34 raises, and the iteration goes on to its end;
\* otherwise the script waits in time.sleep(5) with the webdriver open
BulkStep ==
    /\ pc = "bulk_loop"
    /\ driver = NoDriver
    /\ urls # Unbound
    /\ idx < Len(urls)
    /\ \/ \E browser \in BrowsersBeforeWait(sessions) : BulkReturn(browser, sessions)
       \/ /\ sessions' = sessions + 1
          /\ driver' = [tab |-> "bulk", url |-> urls[idx + 1], keywords |-> <<>>]
          /\ UNCHANGED <<errors, fetches, results, progress, idx>>
    /\ UNCHANGED <<pc, warnings, shown, urls, keywords_list, analyzerVars, extractorVars>>

\* main.py:35-59, 163-173: time.sleep(5) returns, the call and the iteration go
\* on to their end
BulkAwake ==
    /\ pc = "bulk_loop"
    /\ driver.tab = "bulk"
    /\ \E browser \in BrowsersAfterWait(sessions - 1) : BulkReturn(browser, sessions - 1)
    /\ UNCHANGED <<pc, warnings, shown, urls, keywords_list, analyzerVars, extractorVars>>

\* main.py:175-190: the loop is over
BulkFinish ==
    /\ pc = "bulk_loop"
    /\ driver = NoDriver
    /\ urls # Unbound
    /\ idx = Len(urls)
    /\ IF results # <<>>
       THEN /\ shown' = <<[tab |-> "bulk", rows |-> results]>>
            /\ warnings' = warnings
       ELSE /\ shown' = <<>>
            /\ warnings' = Append(warnings, NoValidContentWarning)
    /\ pc' = "bulk_done"
    /\ UNCHANGED <<sessions, errors, urls, keywords_list, idx, results, progress,
                   fetches, driver, analyzerVars, extractorVars>>

Next ==
    \/ SingleAnalyze
    \/ SingleAwake
    \/ SingleMissingInput
    \/ NoHandler
    \/ BulkStart
    \/ BulkReadError
    \/ BulkNameError
    \/ BulkStep
    \/ BulkAwake
    \/ BulkFinish

Spec == Init /\ [][Next]_vars

(***************************************************************************)
(* Claims about the application (checked under Spec)                       *)
(***************************************************************************)
\* the loop positions whose fetch succeeded with non-empty extracted content
Productive == {i \in 1..Len(fetches) : fetches[i].kind = "page" /\ fetches[i].content # <<>>}

\* C1: in bulk mode, whatever the URL list and whichever fetches fail, the loop
\* runs to the last URL and the result rows are exactly the URLs whose fetch
\* succeeded with non-empty extracted content, in input order.  While the loop
\* of a run that read a URL list is under way, one fetch has returned per
\* iteration completed and the handler's own error has not been reported; when
\* the run is over, every URL has been fetched, still without that error, and
\* the rows are those of the productive URLs in order.
C1_BulkRowsAreProductiveUrls ==
    /\ (pc = "bulk_loop" /\ urls # Unbound) =>
           /\ idx <= Len(urls)
           /\ Len(fetches) = idx
           /\ BulkError \notin Range(errors)
    /\ (pc = "bulk_done" /\ urls # Unbound) =>
           /\ idx = Len(urls)
           /\ BulkError \notin Range(errors)
           /\ Len(fetches) = Len(urls)
           /\ \A i \in 1..Len(urls) : fetches[i].url = urls[i]
           /\ Len(results) = Cardinality(Productive)
           /\ \A j \in 1..Len(results) :
                  \E i \in Productive :
                      /\ results[j].URL = urls[i]
                      /\ Cardinality({k \in Productive : k < i}) = j - 1

\* three URLs, the second fails to load: two rows, for the first and the third
C1_Witness ==
    /\ pc = "bulk_done"
    /\ Len(urls) = 3
    /\ urls[1] # urls[3]
    /\ fetches[1].kind = "page"
    /\ fetches[2].kind = "get_error"
    /\ fetches[3].kind = "page"
    /\ Len(results) = 2
    /\ results[1].URL = urls[1]
    /\ results[2].URL = urls[3]
    /\ Len(errors) = 1

\* C2: every get_clean_content call that started a webdriver has quit it by the
\* time it returns, on the success path and on every error path: no render
\* session is left open after any sequence of analyses (a call still inside
\* time.sleep has not returned, and holds its webdriver).
C2_NoSessionLeftOpen == driver = NoDriver => sessions = 0

\* C9: in single-URL mode the empty-content warning is shown exactly when the
\* fetch succeeded and extraction yielded no text; a fetch or render failure is
\* reported as an error message and does not also produce the empty-content
\* warning; analysis is skipped in both cases.
C9_EmptyContentDistinctFromFetchError ==
    (pc = "single_done" /\ fetches # <<>>) =>
        LET f == fetches[1]
        IN  /\ (NoContentWarning \in Range(warnings))
                   <=> (f.kind = "page" /\ f.content = <<>>)
            /\ f.kind # "page" => errors # <<>>
            /\ (f.kind # "page" \/ f.content = <<>>) => shown = <<>>

====
